---------------------------- MODULE Spec2Model ----------------------------
(***************************************************************************)
(* A model of the transfer lifecycle of imagineread-lite: the code         *)
(* generator (app/services/code_generator.py), the Transfer model and the  *)
(* transfer registry (app/services/transfer_service.py), the storage       *)
(* backend (app/services/storage_service.py) and the upload and download   *)
(* handlers (app/routers/upload.py, app/routers/download.py).              *)
(*                                                                         *)
(* Three specifications share the module:                                  *)
(*   SpecCode      calls of the pure functions of code_generator.py;       *)
(*   SpecTransfer  construction, serialisation and expiry of one Transfer, *)
(*                 and a sequential create / get on the registry;          *)
(*   Spec          the running service: request handlers taken one         *)
(*                 service call at a time by concurrent workers.           *)
(*                                                                         *)
(* Conventions.  A Python str is a sequence of one-character strings.  An  *)
(* Optional value is None (the empty sequence) or Some(x) (a one-element   *)
(* sequence).  A datetime is an integer number of seconds.                 *)
(***************************************************************************)
EXTENDS Integers, Sequences, FiniteSets, TLC

VARIABLES
    \* ---- SpecCode: one call of a function of code_generator.py
    cPc,        \* "start" | "loop" | "done"
    cOp,        \* the function called
    cLength,    \* its length argument
    cExisting,  \* generate_unique_code's existing_codes (Optional set)
    cAttempt,   \* generate_unique_code's loop counter
    cArg,       \* format_code_for_display's argument
    cRet,       \* the value returned
    \* ---- SpecTransfer: one Transfer object
    tPc,        \* "start" | "built" | "stored" | "fetched"
    tArgs,      \* the arguments __init__ was called with (Optional record)
    tObj,       \* the Transfer object (Optional)
    tExpired,   \* the last is_expired() call: Optional [at, result]
    tGot,       \* what the registry's get returned: Optional (Optional Transfer)
    \* ---- shared by SpecTransfer and Spec
    FREE_EXPIRY_HOURS,  \* config.FREE_EXPIRY_HOURS, read from the environment
    now,        \* datetime.utcnow(), in seconds
    db,         \* the registry: transfers.json or the Firestore collection
                \* (code -> stored dict)
    \* ---- Spec: the running service
    ENVIRONMENT,  \* config.ENVIRONMENT: "development" | "production"
    files,      \* the storage backend: storage path -> bytes
    w,          \* the workers: the handler each runs, where it is, its locals
    started,    \* requests received so far
    ticks,      \* advances of the clock so far
    incremented, \* history: per code, the increment_download_count calls that
                \* returned True since the record was last created
    \* ---- SpecRegistry: calls on the registry and the storage backend
    rOp,        \* the last call
    rArg,       \* its argument: a code or a storage path
    rRet,       \* what it returned (Optional)
    rRaised,    \* whether it raised
    rBefore,    \* the registry when it was called
    rAt,        \* the clock when it was called
    rFiles,     \* the storage backend when it was called
    live,       \* history: the codes created and not deleted since
    delCalled,  \* history: the codes created, then passed to delete(), and
                \* not created again since
    delFileCalled \* history: the paths uploaded to, then passed to
                \* delete_file(), and not uploaded to again since

codeVars == <<cPc, cOp, cLength, cExisting, cAttempt, cArg, cRet>>
transferVars == <<tPc, tArgs, tObj, tExpired, tGot>>
sharedVars == <<FREE_EXPIRY_HOURS, now, db>>
serviceVars == <<ENVIRONMENT, files, w, started, ticks, incremented>>
registryVars == <<rOp, rArg, rRet, rRaised, rBefore, rAt, rFiles, live, delCalled, delFileCalled>>

vars == <<codeVars, transferVars, sharedVars, serviceVars, registryVars>>

----------------------------------------------------------------------------
(* Bounds of the model *)

\* how many symbols of the alphabet secrets.choice draws from
NSymbols == 2
\* the largest length passed to generate_code
MaxLength == 3
\* the largest length passed to generate_unique_code
MaxUniqueLength == 1
\* the largest existing_codes set passed to generate_unique_code
MaxExisting == 2
\* the longest code passed to format_code_for_display
MaxFormatLen == 6
\* the clock and the explicit datetimes take the values d * 24h + k seconds,
\* d in 0..1 and k in 0..MaxSkew
MaxSkew == 1
\* the length of the codes of the Transfers (generate_code's default is 8)
CodeLength == 1
\* the largest download_count a Transfer is constructed with
MaxSampleCount == 1
\* the workers that take requests concurrently
NProcs == 2
\* the requests the service receives in one run
MaxRequests == 3
\* the advances of the clock in one run
MaxTicks == 1
\* SpecRegistry: the largest downloadCount a record is incremented to
MaxDownloads == 1
\* SpecLookup: the length of the codes (generate_code's default is 8; 5 is
\* the shortest length that is displayed with a separator)
LookupCodeLength == 5

----------------------------------------------------------------------------
(* Optional values *)

None == <<>>
Some(x) == <<x>>
IsNone(o) == o = <<>>
Val(o) == o[1]

----------------------------------------------------------------------------
(* Python str operations used by the program *)

LowerLetters ==
    <<"a","b","c","d","e","f","g","h","i","j","k","l","m",
      "n","o","p","q","r","s","t","u","v","w","x","y","z">>
UpperLetters ==
    <<"A","B","C","D","E","F","G","H","I","J","K","L","M",
      "N","O","P","Q","R","S","T","U","V","W","X","Y","Z">>
DigitChars == <<"0","1","2","3","4","5","6","7","8","9">>

Range(s) == {s[i] : i \in 1..Len(s)}

\* str.upper() on one character
char_upper(ch) ==
    IF ch \in Range(LowerLetters)
    THEN UpperLetters[CHOOSE i \in 1..Len(LowerLetters) : LowerLetters[i] = ch]
    ELSE ch

\* str.lower() on one character
char_lower(ch) ==
    IF ch \in Range(UpperLetters)
    THEN LowerLetters[CHOOSE i \in 1..Len(UpperLetters) : UpperLetters[i] = ch]
    ELSE ch

str_upper(s) == [i \in 1..Len(s) |-> char_upper(s[i])]
str_lower(s) == [i \in 1..Len(s) |-> char_lower(s[i])]

NotHyphen(ch) == ch # "-"
\* s.replace("-", "")
str_remove_hyphens(s) == SelectSeq(s, NotHyphen)

\* str.isalnum() on one ASCII character
char_isalnum(ch) ==
    ch \in Range(LowerLetters) \cup Range(UpperLetters) \cup Range(DigitChars)

----------------------------------------------------------------------------
(* code_generator.py *)

\* alphabet = "ABCDEFGHJKMNPQRSTUVWXYZ23456789"
alphabet ==
    <<"A","B","C","D","E","F","G","H","J","K","M","N","P","Q","R",
      "S","T","U","V","W","X","Y","Z","2","3","4","5","6","7","8","9">>

\* the symbols secrets.choice(alphabet) is let to return
Symbols == {alphabet[i] : i \in 1..NSymbols}

\* faulty variant: one character too many
generate_code_long(length) == [1..(length + 1) -> Symbols]

\* generate_code(length): the set of strings the call can return,
\* ''.join(secrets.choice(alphabet) for _ in range(length))
generate_code(length) == [1..length -> Symbols]

\* a retry budget of one draw more
max_attempts_more == 100 + 1

max_attempts == 100

\* faulty variant: the separator is put in place of the character at mid
format_code_dropping(code) ==
    IF Len(code) <= 4 THEN code
    ELSE LET mid == Len(code) \div 2
         IN  SubSeq(code, 1, mid) \o <<"-">> \o SubSeq(code, mid + 2, Len(code))

\* format_code_for_display(code)
format_code_for_display(code) ==
    IF Len(code) <= 4 THEN code
    ELSE LET mid == Len(code) \div 2
         IN  SubSeq(code, 1, mid) \o <<"-">> \o SubSeq(code, mid + 1, Len(code))

\* faulty variant: the separators are left in the code
normalize_code_keeping_hyphens(code) == str_upper(code)

\* code.upper().replace("-", ""), the normalisation of the download handlers
normalize_code(code) == str_remove_hyphens(str_upper(code))

----------------------------------------------------------------------------
(* config.py *)

\* FREE_EXPIRY_HOURS = int(os.getenv("FREE_EXPIRY_HOURS", "24")): the default
DefaultFreeExpiryHours == 24

----------------------------------------------------------------------------
(* datetime *)

SecondsPerMinute == 60
SecondsPerHour == 3600
SecondsPerDay == 86400

\* timedelta(hours=h), in seconds
timedelta_hours(h) == h * SecondsPerHour

\* datetime.isoformat(): the date and the time of day, written out
isoformat(t) ==
    [ date   |-> t \div SecondsPerDay,
      hour   |-> (t % SecondsPerDay) \div SecondsPerHour,
      minute |-> (t % SecondsPerHour) \div SecondsPerMinute,
      second |-> t % SecondsPerMinute ]

\* datetime.fromisoformat()
fromisoformat(iso) ==
    iso.date * SecondsPerDay + iso.hour * SecondsPerHour
        + iso.minute * SecondsPerMinute + iso.second

----------------------------------------------------------------------------
(* transfer_service.py: class Transfer *)

\* faulty variant: the expiry is computed whenever the transfer is not premium
Transfer_always_computed(code, original_name, file_type, file_size_bytes, storage_path, is_premium, user_id, created_at, expires_at, download_count, utcnow) ==
    LET created == IF IsNone(created_at) THEN utcnow ELSE Val(created_at)
    IN  [ code            |-> code,
          original_name   |-> original_name,
          file_type       |-> file_type,
          file_size_bytes |-> file_size_bytes,
          storage_path    |-> storage_path,
          is_premium      |-> is_premium,
          user_id         |-> user_id,
          created_at      |-> created,
          expires_at      |->
              IF ~is_premium
              THEN Some(created + timedelta_hours(FREE_EXPIRY_HOURS))
              ELSE expires_at,
          download_count  |-> download_count ]

\* Transfer.__init__; utcnow is the clock at the call.  created_at and
\* expires_at are Optional datetimes, user_id an Optional str.
Transfer(code, original_name, file_type, file_size_bytes, storage_path, is_premium, user_id, created_at, expires_at, download_count, utcnow) ==
    LET created == IF IsNone(created_at) THEN utcnow ELSE Val(created_at)
    IN  [ code            |-> code,
          original_name   |-> original_name,
          file_type       |-> file_type,
          file_size_bytes |-> file_size_bytes,
          storage_path    |-> storage_path,
          is_premium      |-> is_premium,
          user_id         |-> user_id,
          created_at      |-> created,
          expires_at      |->
              IF IsNone(expires_at) /\ ~is_premium
              THEN Some(created + timedelta_hours(FREE_EXPIRY_HOURS))
              ELSE expires_at,
          download_count  |-> download_count ]

\* faulty variant: the counter is not written out
to_dict_zero_count(t) ==
    [ code          |-> t.code,
      originalName  |-> t.original_name,
      fileType      |-> t.file_type,
      fileSizeBytes |-> t.file_size_bytes,
      storagePath   |-> t.storage_path,
      isPremium     |-> t.is_premium,
      userId        |-> t.user_id,
      createdAt     |-> isoformat(t.created_at),
      expiresAt     |-> IF IsNone(t.expires_at) THEN None
                        ELSE Some(isoformat(Val(t.expires_at))),
      downloadCount |-> 0 ]

\* Transfer.to_dict; a datetime is truthy, so expiresAt is null exactly when
\* expires_at is None
to_dict(t) ==
    [ code          |-> t.code,
      originalName  |-> t.original_name,
      fileType      |-> t.file_type,
      fileSizeBytes |-> t.file_size_bytes,
      storagePath   |-> t.storage_path,
      isPremium     |-> t.is_premium,
      userId        |-> t.user_id,
      createdAt     |-> isoformat(t.created_at),
      expiresAt     |-> IF IsNone(t.expires_at) THEN None
                        ELSE Some(isoformat(Val(t.expires_at))),
      downloadCount |-> t.download_count ]

\* the arguments Transfer.from_dict passes to __init__ for a stored dict; every
\* stored dict has all ten keys and a non-empty createdAt string
from_dict_args(data) ==
    [ code            |-> data.code,
      original_name   |-> data.originalName,
      file_type       |-> data.fileType,
      file_size_bytes |-> data.fileSizeBytes,
      storage_path    |-> data.storagePath,
      is_premium      |-> data.isPremium,
      user_id         |-> data.userId,
      created_at      |-> Some(fromisoformat(data.createdAt)),
      expires_at      |-> IF IsNone(data.expiresAt) THEN None
                          ELSE Some(fromisoformat(Val(data.expiresAt))),
      download_count  |-> data.downloadCount ]

\* cls(**kwargs)
TransferOf(a, utcnow) ==
    Transfer(a.code, a.original_name, a.file_type, a.file_size_bytes,
             a.storage_path, a.is_premium, a.user_id, a.created_at,
             a.expires_at, a.download_count, utcnow)

\* Transfer.from_dict
from_dict(data, utcnow) == TransferOf(from_dict_args(data), utcnow)

\* faulty variant: no transfer ever counts as expired
is_expired_never(t, utcnow) == FALSE

\* faulty variant: expired from the instant of expiry on
is_expired_inclusive(t, utcnow) ==
    IF IsNone(t.expires_at) THEN FALSE ELSE utcnow >= Val(t.expires_at)

\* Transfer.is_expired; utcnow is the clock at the call
is_expired(t, utcnow) ==
    IF IsNone(t.expires_at) THEN FALSE ELSE utcnow > Val(t.expires_at)

----------------------------------------------------------------------------
(* transfer_service.py: class LocalTransferService *)

\* db[key] = value on a dict
Put(d, key, value) ==
    [k \in DOMAIN d \cup {key} |-> IF k = key THEN value ELSE d[k]]

\* _ensure_db: write_text("{}")
EmptyDb == [k \in {} |-> None]

\* _load_db: json.loads of the file (what json.dumps wrote)
load_db(file) == file

\* _save_db: json.dumps of the whole document
save_db(data) == data

\* LocalTransferService.create, run without interruption: the new document
local_create(file, transfer) ==
    save_db(Put(load_db(file), transfer.code, to_dict(transfer)))

\* LocalTransferService.get: Optional Transfer
local_get(file, code, utcnow) ==
    LET loaded == load_db(file)
    IN  IF code \in DOMAIN loaded
        THEN Some(from_dict(loaded[code], utcnow))
        ELSE None

\* LocalTransferService.get_all_codes
local_get_all_codes(file) == DOMAIN load_db(file)

----------------------------------------------------------------------------
(* transfer_service.py: class FirestoreTransferService; the collection is  *)
(* the map  document id -> document                                        *)

\* FirestoreTransferService.create: document(code).set(to_dict())
firestore_create(collection, transfer) ==
    Put(collection, transfer.code, to_dict(transfer))

\* FirestoreTransferService.get: Optional Transfer
firestore_get(collection, code, utcnow) ==
    IF code \in DOMAIN collection
    THEN Some(from_dict(collection[code], utcnow))
    ELSE None

\* FirestoreTransferService.get_all_codes
firestore_get_all_codes(collection) == DOMAIN collection

\* doc_ref.update({"downloadCount": firestore.Increment(1)}) on a document
\* that exists: one atomic server-side step
firestore_increment(collection, code) ==
    [collection EXCEPT ![code].downloadCount = @ + 1]

\* get_transfer_service(): the registry the environment selects
registry_get(env, store, code, utcnow) ==
    IF env = "development"
    THEN local_get(store, code, utcnow)
    ELSE firestore_get(store, code, utcnow)

registry_get_all_codes(env, store) ==
    IF env = "development"
    THEN local_get_all_codes(store)
    ELSE firestore_get_all_codes(store)

----------------------------------------------------------------------------
(* transfer_service.py: the calls of the two registries run without        *)
(* interruption.  A call gives [store, ret, raised]: the registry once it  *)
(* has returned, the value returned (None when it raised), whether it      *)
(* raised.                                                                 *)

\* del d[key]
Remove(d, key) == [k \in DOMAIN d \ {key} |-> d[k]]

Returned(store, value) == [store |-> store, ret |-> Some(value), raised |-> FALSE]
Raised(store) == [store |-> store, ret |-> None, raised |-> TRUE]

\* a <= b on two isoformat() strings: the fields are of fixed width, so the
\* strings compare field by field
iso_le(a, b) ==
    \/ a.date < b.date
    \/ a.date = b.date /\ a.hour < b.hour
    \/ a.date = b.date /\ a.hour = b.hour /\ a.minute < b.minute
    \/ a.date = b.date /\ a.hour = b.hour /\ a.minute = b.minute
          /\ a.second <= b.second

\* LocalTransferService.exists
local_exists(file, code) == code \in DOMAIN load_db(file)

\* LocalTransferService.increment_download_count
local_increment_download_count(file, code) ==
    LET loaded == load_db(file)
    IN  IF code \notin DOMAIN loaded
        THEN Returned(file, FALSE)
        ELSE Returned(save_db([loaded EXCEPT ![code].downloadCount = @ + 1]),
                      TRUE)

\* LocalTransferService.delete
local_delete(file, code) ==
    LET loaded == load_db(file)
    IN  IF code \in DOMAIN loaded
        THEN Returned(save_db(Remove(loaded, code)), TRUE)
        ELSE Returned(file, FALSE)

\* LocalTransferService.get_expired: the transfers, in no order
local_get_expired(file, utcnow) ==
    LET loaded == load_db(file)
    IN  {from_dict(loaded[c], utcnow) :
            c \in {k \in DOMAIN loaded :
                      is_expired(from_dict(loaded[k], utcnow), utcnow)}}

\* FirestoreTransferService.exists
firestore_exists(collection, code) == code \in DOMAIN collection

\* FirestoreTransferService.increment_download_count: update() of a document
\* that does not exist raises NotFound, and nothing catches it
firestore_increment_download_count(collection, code) ==
    IF code \in DOMAIN collection
    THEN Returned(firestore_increment(collection, code), TRUE)
    ELSE Raised(collection)

\* FirestoreTransferService.delete: document(code).delete() succeeds whether
\* or not the document exists
firestore_delete(collection, code) ==
    Returned(Remove(collection, code), TRUE)

\* FirestoreTransferService.get_expired:
\* where("expiresAt", "<=", now.isoformat()); a range filter on a string
\* matches no document whose expiresAt is null
firestore_get_expired(collection, utcnow) ==
    {from_dict(collection[c], utcnow) :
        c \in {k \in DOMAIN collection :
                  /\ ~IsNone(collection[k].expiresAt)
                  /\ iso_le(Val(collection[k].expiresAt), isoformat(utcnow))}}

\* the registry the environment selects
registry_create(env, store, transfer) ==
    IF env = "development"
    THEN local_create(store, transfer)
    ELSE firestore_create(store, transfer)

registry_exists(env, store, code) ==
    IF env = "development"
    THEN local_exists(store, code)
    ELSE firestore_exists(store, code)

registry_increment_download_count(env, store, code) ==
    IF env = "development"
    THEN local_increment_download_count(store, code)
    ELSE firestore_increment_download_count(store, code)

registry_delete(env, store, code) ==
    IF env = "development"
    THEN local_delete(store, code)
    ELSE firestore_delete(store, code)

registry_get_expired(env, store, utcnow) ==
    IF env = "development"
    THEN local_get_expired(store, utcnow)
    ELSE firestore_get_expired(store, utcnow)

----------------------------------------------------------------------------
(* storage_service.py: LocalStorageService and R2StorageService; the store *)
(* is the map  storage path -> bytes,  a path is <<tier, code, filename>>  *)

EmptyFiles == [k \in {} |-> None]

\* f"{tier}/{code}/{filename}"
make_storage_path(code, filename, is_premium) ==
    <<IF is_premium THEN "premium" ELSE "free", code, filename>>

\* faulty variant: the path is returned and the bytes are not written
storage_upload_file_unwritten(store, file_content, code, filename, is_premium) ==
    store

\* upload_file of either backend: the store once the call has returned
storage_upload_file(store, file_content, code, filename, is_premium) ==
    Put(store, make_storage_path(code, filename, is_premium), file_content)

\* get_file of either backend: Optional bytes
storage_get_file(store, storage_path) ==
    IF storage_path \in DOMAIN store THEN Some(store[storage_path]) ELSE None

\* faulty variant: True is returned and the object is left in place
storage_delete_file_kept(env, store, storage_path) ==
    [store |-> store, ret |-> TRUE]

\* LocalStorageService.delete_file: [store, ret]
local_delete_file(store, storage_path) ==
    IF storage_path \in DOMAIN store
    THEN [store |-> Remove(store, storage_path), ret |-> TRUE]
    ELSE [store |-> store, ret |-> FALSE]

\* R2StorageService.delete_file: delete_object succeeds whether or not the
\* key exists
r2_delete_file(store, storage_path) ==
    [store |-> Remove(store, storage_path), ret |-> TRUE]

\* get_storage_service(): the backend the environment selects
storage_delete_file(env, store, storage_path) ==
    IF env = "development"
    THEN local_delete_file(store, storage_path)
    ELSE r2_delete_file(store, storage_path)

\* get_download_url of either backend: parts = storage_path.split("/")
get_download_url(storage_path) == <<"/api/download/", storage_path[2]>>

----------------------------------------------------------------------------
(* routers/upload.py and config.py: validation *)

ALLOWED_EXTENSIONS ==
    { <<"p","d","f">>, <<"c","b","z">>, <<"c","b","r">>, <<"e","p","u","b">> }

FREE_FILE_SIZE_LIMIT_MB == 30
FREE_FILE_SIZE_LIMIT_BYTES == FREE_FILE_SIZE_LIMIT_MB * 1024 * 1024

\* the retries of the uniqueness loop of upload_file
MaxUploadAttempts == 10

\* get_file_extension; a filename is [stem, ext], ext None when the name has
\* no dot
get_file_extension(filename) ==
    IF IsNone(filename.ext) THEN <<>> ELSE str_lower(Val(filename.ext))

\* validate_file_type does not raise
file_type_allowed(filename) == get_file_extension(filename) \in ALLOWED_EXTENSIONS

\* validate_file_size(file_size, is_premium=False) does not raise
file_size_allowed(file_size) == ~(file_size > FREE_FILE_SIZE_LIMIT_BYTES)

----------------------------------------------------------------------------
(* SpecTransfer: one Transfer is constructed from arguments drawn from     *)
(* bounded sets, rebuilt through to_dict / from_dict, asked is_expired()   *)
(* as the clock advances, and stored in and read back from the registry.   *)

\* the datetimes of the model
TimePoints ==
    {d * timedelta_hours(DefaultFreeExpiryHours) + k : d \in 0..1, k \in 0..MaxSkew}
OptionalTimes == {None} \cup {Some(t) : t \in TimePoints}
\* the values FREE_EXPIRY_HOURS is configured with: int(os.getenv(...)) takes
\* any integer
ConfiguredHours == {DefaultFreeExpiryHours, 1, -1}
SampleName == [stem |-> "book", ext |-> Some(<<"p", "d", "f">>)]
SampleType == <<"p", "d", "f">>
SampleSizes == {0, 1000}
SampleUsers == {None, Some("user-1")}

InitCodeIdle ==
    /\ cPc = "idle"
    /\ cOp = "none"
    /\ cLength = 0
    /\ cExisting = None
    /\ cAttempt = 0
    /\ cArg = <<>>
    /\ cRet = None

InitTransferIdle ==
    /\ tPc = "idle"
    /\ tArgs = None
    /\ tObj = None
    /\ tExpired = None
    /\ tGot = None

InitRegistryIdle ==
    /\ rOp = "none"
    /\ rArg = <<>>
    /\ rRet = None
    /\ rRaised = FALSE
    /\ rBefore = [k \in {} |-> None]
    /\ rAt = 0
    /\ rFiles = [k \in {} |-> None]
    /\ live = {}
    /\ delCalled = {}
    /\ delFileCalled = {}

Procs == 1..NProcs

\* a worker between two requests; first and overlaps are history: the first
\* candidate code of its upload, and the workers whose upload was in flight
\* at some moment of its upload
IdleWorker ==
    [ pc             |-> "idle",
      kind         |-> "none",
      filename     |-> None,
      content      |-> None,
      code         |-> <<>>,
      storage_path |-> None,
      transfer     |-> None,
      loaded       |-> None,
      file_content |-> None,
      resp         |-> None,
      first        |-> <<>>,
      overlaps     |-> {} ]

InitServiceIdle ==
    /\ ENVIRONMENT = "development"
    /\ files = EmptyFiles
    /\ w = [p \in Procs |-> IdleWorker]
    /\ started = 0
    /\ ticks = 0
    /\ incremented = [c \in generate_code(CodeLength) |-> 0]

InitTransfer ==
    /\ InitCodeIdle
    /\ InitServiceIdle
    /\ InitRegistryIdle
    /\ tPc = "start"
    /\ tArgs = None
    /\ tObj = None
    /\ tExpired = None
    /\ tGot = None
    /\ FREE_EXPIRY_HOURS \in ConfiguredHours
    /\ now \in TimePoints
    /\ db = EmptyDb

\* Transfer(...)
Construct ==
    /\ tPc = "start"
    /\ \E code \in generate_code(CodeLength), is_premium \in BOOLEAN,
          user_id \in SampleUsers, created_at \in OptionalTimes,
          expires_at \in OptionalTimes, download_count \in 0..MaxSampleCount,
          file_size_bytes \in SampleSizes :
         LET a == [ code            |-> code,
                    original_name   |-> SampleName,
                    file_type       |-> SampleType,
                    file_size_bytes |-> file_size_bytes,
                    storage_path    |-> <<"free", code, SampleName>>,
                    is_premium      |-> is_premium,
                    user_id         |-> user_id,
                    created_at      |-> created_at,
                    expires_at      |-> expires_at,
                    download_count  |-> download_count ]
         IN  /\ tArgs' = Some(a)
             /\ tObj' = Some(TransferOf(a, now))
    /\ tPc' = "built"
    /\ UNCHANGED <<tExpired, tGot, codeVars, sharedVars, serviceVars, registryVars>>

\* Transfer.from_dict(t.to_dict())
Rebuild ==
    /\ tPc = "built"
    /\ LET data == to_dict(Val(tObj))
       IN  /\ tArgs' = Some(from_dict_args(data))
           /\ tObj' = Some(from_dict(data, now))
    /\ tExpired' = None
    /\ UNCHANGED <<tPc, tGot, codeVars, sharedVars, serviceVars, registryVars>>

\* time passes
TransferTick ==
    /\ tPc = "built"
    /\ \E t \in TimePoints : t > now /\ now' = t
    /\ UNCHANGED <<transferVars, codeVars, FREE_EXPIRY_HOURS, db, serviceVars, registryVars>>

\* t.is_expired()
CallIsExpired ==
    /\ tPc = "built"
    /\ tExpired' = Some([at |-> now, result |-> is_expired(Val(tObj), now)])
    /\ UNCHANGED <<tPc, tArgs, tObj, tGot, codeVars, sharedVars, serviceVars, registryVars>>

\* transfer_service.create(t)
RegistryCreate ==
    /\ tPc = "built"
    /\ db' = local_create(db, Val(tObj))
    /\ tPc' = "stored"
    /\ UNCHANGED <<tArgs, tObj, tExpired, tGot, codeVars, FREE_EXPIRY_HOURS, now, serviceVars, registryVars>>

\* transfer_service.get(t.code)
RegistryGet ==
    /\ tPc = "stored"
    /\ tGot' = Some(local_get(db, Val(tObj).code, now))
    /\ tPc' = "fetched"
    /\ UNCHANGED <<tArgs, tObj, tExpired, codeVars, sharedVars, serviceVars, registryVars>>

NextTransfer ==
    \/ Construct
    \/ Rebuild
    \/ TransferTick
    \/ CallIsExpired
    \/ RegistryCreate
    \/ RegistryGet

SpecTransfer == InitTransfer /\ [][NextTransfer]_vars

----------------------------------------------------------------------------
(* SpecCode: one call of generate_code, generate_unique_code or            *)
(* format_code_for_display on arguments drawn from bounded sets.           *)

\* the codes existing_codes is drawn from: those the generator can return
\* for the requested length, in the loop or in the fallback
ExistingPool(length) == generate_code(length) \cup generate_code(length + 2)

\* the subsets of P with at most k elements
RECURSIVE SubsetsUpTo(_, _)
SubsetsUpTo(P, k) ==
    IF k = 0 THEN {{}}
    ELSE LET smaller == SubsetsUpTo(P, k - 1)
         IN  smaller \cup {S \cup {c} : S \in smaller, c \in P}

ExistingSets(length) == SubsetsUpTo(ExistingPool(length), MaxExisting)
FormatArgs == UNION {[1..n -> Symbols] : n \in 0..MaxFormatLen}

InitCode ==
    /\ cPc = "start"
    /\ cOp = "none"
    /\ cLength = 0
    /\ cExisting = None
    /\ cAttempt = 0
    /\ cArg = <<>>
    /\ cRet = None
    /\ InitTransferIdle
    /\ InitServiceIdle
    /\ InitRegistryIdle
    /\ FREE_EXPIRY_HOURS = DefaultFreeExpiryHours
    /\ now = 0
    /\ db = EmptyDb

\* generate_code(length)
CallGenerateCode ==
    /\ cPc = "start"
    /\ \E length \in 0..MaxLength :
         \E code \in generate_code(length) :
            /\ cLength' = length
            /\ cRet' = Some(code)
    /\ cOp' = "generate_code"
    /\ cPc' = "done"
    /\ UNCHANGED <<cExisting, cAttempt, cArg, transferVars, sharedVars, serviceVars, registryVars>>

\* generate_unique_code(existing_codes, length): entry.  With existing_codes
\* None the call returns generate_code(length) at once.
CallGenerateUnique ==
    /\ cPc = "start"
    /\ cOp' = "generate_unique_code"
    /\ cAttempt' = 0
    /\ \E length \in 0..MaxUniqueLength :
         /\ cLength' = length
         /\ \/ /\ cExisting' = None
               /\ \E code \in generate_code(length) : cRet' = Some(code)
               /\ cPc' = "done"
            \/ /\ \E S \in ExistingSets(length) : cExisting' = Some(S)
               /\ cRet' = None
               /\ cPc' = "loop"
    /\ UNCHANGED <<cArg, transferVars, sharedVars, serviceVars, registryVars>>

\* one iteration of  for _ in range(max_attempts)
UniqueAttempt ==
    /\ cPc = "loop"
    /\ cAttempt < max_attempts
    /\ \E code \in generate_code(cLength) :
         IF code \notin Val(cExisting)
         THEN /\ cRet' = Some(code)
              /\ cPc' = "done"
              /\ UNCHANGED cAttempt
         ELSE /\ cAttempt' = cAttempt + 1
              /\ UNCHANGED <<cRet, cPc>>
    /\ UNCHANGED <<cOp, cLength, cExisting, cArg, transferVars, sharedVars, serviceVars, registryVars>>

\* the loop is exhausted: return generate_code(length + 2)
UniqueFallback ==
    /\ cPc = "loop"
    /\ cAttempt = max_attempts
    /\ \E code \in generate_code(cLength + 2) : cRet' = Some(code)
    /\ cPc' = "done"
    /\ UNCHANGED <<cOp, cLength, cExisting, cAttempt, cArg, transferVars, sharedVars, serviceVars, registryVars>>

\* format_code_for_display(code)
CallFormat ==
    /\ cPc = "start"
    /\ \E code \in FormatArgs :
         /\ cArg' = code
         /\ cRet' = Some(format_code_for_display(code))
    /\ cOp' = "format_code_for_display"
    /\ cPc' = "done"
    /\ UNCHANGED <<cLength, cExisting, cAttempt, transferVars, sharedVars, serviceVars, registryVars>>

NextCode ==
    \/ CallGenerateCode
    \/ CallGenerateUnique
    \/ UniqueAttempt
    \/ UniqueFallback
    \/ CallFormat

SpecCode == InitCode /\ [][NextCode]_vars

\* generate_unique_code runs on one thread and nothing suspends it: a call
\* that has a step to take takes it.
SpecCodeFair == SpecCode /\ WF_vars(NextCode)

----------------------------------------------------------------------------
(* Spec: the running service.  NProcs workers (processes or instances of   *)
(* the application, over one registry and one storage backend) each take   *)
(* requests one after the other; a handler advances one call on the        *)
(* registry or the storage backend at a time, so the calls of concurrent   *)
(* requests interleave.  In development the registry's create and          *)
(* increment_download_count are a _load_db and a _save_db.                 *)

\* the bytes of an upload: none, or one byte
Contents == {<<>>, <<0>>}
\* the filenames of an upload
FileNames ==
    { [stem |-> "book",  ext |-> Some(<<"P", "D", "F">>)],
      [stem |-> "notes", ext |-> Some(<<"t", "x", "t">>)] }
\* the codes generate_code() returns in the service
ServiceCodes == generate_code(CodeLength)
\* the codes a download-side request carries: as returned by the upload, in
\* lowercase, and as displayed
RequestCodes ==
    UNION {{c, str_lower(c), format_code_for_display(c)} : c \in ServiceCodes}

Init ==
    /\ InitCodeIdle
    /\ InitTransferIdle
    /\ InitRegistryIdle
    /\ FREE_EXPIRY_HOURS = DefaultFreeExpiryHours
    /\ now = 0
    /\ db = EmptyDb
    /\ ENVIRONMENT \in {"development", "production"}
    /\ files = EmptyFiles
    /\ w = [p \in Procs |-> IdleWorker]
    /\ started = 0
    /\ ticks = 0
    /\ incremented = [c \in ServiceCodes |-> 0]

\* the handler of worker p returns (or raises the HTTPException) resp
Respond(p, resp) ==
    [w EXCEPT ![p] = [IdleWorker EXCEPT
                         !.kind = w[p].kind, !.code = w[p].code,
                         !.transfer = w[p].transfer, !.resp = Some(resp),
                         !.first = w[p].first, !.overlaps = w[p].overlaps]]

UploadsInFlight == {q \in Procs : w[q].kind = "upload_file" /\ w[q].pc # "idle"}

\* the uniqueness loop of upload_file,
\*     while code in existing_codes and attempts < 10:
\*         code = generate_code(); attempts += 1
\* entered with attempts and with code any of candidates: the codes it can
\* leave with
RECURSIVE uniqueness_loop(_, _, _)
uniqueness_loop(existing_codes, candidates, attempts) ==
    LET again == {c \in candidates :
                     c \in existing_codes /\ attempts < MaxUploadAttempts}
    IN  (candidates \ again)
          \cup (IF again = {} THEN {}
                ELSE uniqueness_loop(existing_codes, ServiceCodes, attempts + 1))

\* upload_file, to the end of the uniqueness loop: validate_file_type,
\* file.read(), validate_file_size, get_all_codes(), generate_code() and the
\* loop, which touches nothing but the handler's locals
UploadStart(p) ==
    /\ w[p].pc = "idle"
    /\ started < MaxRequests
    /\ started' = started + 1
    /\ \E filename \in FileNames, content \in Contents, first \in ServiceCodes :
         IF ~file_type_allowed(filename)
         THEN w' = [w EXCEPT ![p] = [IdleWorker EXCEPT
                        !.kind = "upload_file", !.resp = Some([status |-> 400])]]
         ELSE IF ~file_size_allowed(Len(content))
         THEN w' = [w EXCEPT ![p] = [IdleWorker EXCEPT
                        !.kind = "upload_file", !.resp = Some([status |-> 413])]]
         ELSE \E code \in uniqueness_loop(
                              registry_get_all_codes(ENVIRONMENT, db), {first}, 0) :
                w' = [q \in Procs |->
                       IF q = p
                       THEN [IdleWorker EXCEPT
                               !.pc = "store", !.kind = "upload_file",
                               !.filename = Some(filename),
                               !.content = Some(content),
                               !.code = code, !.first = first,
                               !.overlaps = UploadsInFlight \ {p}]
                       ELSE IF q \in UploadsInFlight
                       THEN [w[q] EXCEPT !.overlaps = @ \cup {p}]
                       ELSE w[q]]
    /\ UNCHANGED <<codeVars, transferVars, registryVars, sharedVars, ENVIRONMENT, files,
                   ticks, incremented>>

\* storage.upload_file(...) returns the storage path
UploadStore(p) ==
    /\ w[p].pc = "store"
    /\ files' = storage_upload_file(files, Val(w[p].content), w[p].code,
                                    Val(w[p].filename), FALSE)
    /\ w' = [w EXCEPT
               ![p].pc = "create",
               ![p].storage_path =
                   Some(make_storage_path(w[p].code, Val(w[p].filename), FALSE))]
    /\ UNCHANGED <<codeVars, transferVars, registryVars, sharedVars, ENVIRONMENT, started,
                   ticks, incremented>>

\* storage.upload_file(...) raises (the disk, the transport): except
\* Exception turns it into a 500
UploadStoreFails(p) ==
    /\ w[p].pc = "store"
    /\ w' = Respond(p, [status |-> 500])
    /\ UNCHANGED <<codeVars, transferVars, registryVars, sharedVars, ENVIRONMENT, files,
                   started, ticks, incremented>>

\* the Transfer upload_file constructs
UploadTransfer(p) ==
    Transfer(w[p].code, Val(w[p].filename),
             get_file_extension(Val(w[p].filename)), Len(Val(w[p].content)),
             Val(w[p].storage_path), FALSE, None, None, None, 0, now)

\* the UploadResponse
UploadResponse(t) ==
    [ status        |-> 200,
      code          |-> t.code,
      codeFormatted |-> format_code_for_display(t.code),
      originalName  |-> t.original_name,
      fileType      |-> t.file_type,
      fileSizeBytes |-> t.file_size_bytes,
      expiresAt     |-> IF IsNone(t.expires_at) THEN None
                        ELSE Some(isoformat(Val(t.expires_at))) ]

\* Transfer(...) and, in development, the _load_db of create
UploadCreateLoad(p) ==
    /\ ENVIRONMENT = "development"
    /\ w[p].pc = "create"
    /\ w' = [w EXCEPT ![p].pc = "create_save",
                      ![p].transfer = Some(UploadTransfer(p)),
                      ![p].loaded = Some(load_db(db))]
    /\ UNCHANGED <<codeVars, transferVars, registryVars, sharedVars, ENVIRONMENT, files,
                   started, ticks, incremented>>

\* in development, db[transfer.code] = transfer.to_dict() and the _save_db of
\* create; the handler returns
UploadCreateSave(p) ==
    /\ ENVIRONMENT = "development"
    /\ w[p].pc = "create_save"
    /\ db' = save_db(Put(Val(w[p].loaded), w[p].code,
                         to_dict(Val(w[p].transfer))))
    /\ incremented' = [incremented EXCEPT ![w[p].code] = 0]
    /\ w' = Respond(p, UploadResponse(Val(w[p].transfer)))
    /\ UNCHANGED <<codeVars, transferVars, registryVars, FREE_EXPIRY_HOURS, now,
                   ENVIRONMENT, files, started, ticks>>

\* Transfer(...) and, in production, the document set of create; the handler
\* returns
UploadCreateSet(p) ==
    /\ ENVIRONMENT = "production"
    /\ w[p].pc = "create"
    /\ LET t == UploadTransfer(p)
       IN  /\ db' = firestore_create(db, t)
           /\ w' = [Respond(p, UploadResponse(t)) EXCEPT ![p].transfer = Some(t)]
    /\ incremented' = [incremented EXCEPT ![w[p].code] = 0]
    /\ UNCHANGED <<codeVars, transferVars, registryVars, FREE_EXPIRY_HOURS, now,
                   ENVIRONMENT, files, started, ticks>>

\* get_file_info / download_file / check_code, to the end of the expiry
\* check: normalise the code, transfer_service.get(code), is_expired()
LookupStart(p, kind, next) ==
    /\ w[p].pc = "idle"
    /\ started < MaxRequests
    /\ started' = started + 1
    /\ \E raw \in RequestCodes :
         LET code == normalize_code(raw)
             transfer == registry_get(ENVIRONMENT, db, code, now)
             me == [IdleWorker EXCEPT !.kind = kind, !.code = code,
                                      !.transfer = transfer]
         IN  IF IsNone(transfer)
             THEN w' = [w EXCEPT ![p] = [me EXCEPT
                          !.resp = Some([status |-> 404])]]
             ELSE IF is_expired(Val(transfer), now)
             THEN w' = [w EXCEPT ![p] = [me EXCEPT
                          !.resp = Some([status |-> 410])]]
             ELSE w' = [w EXCEPT ![p] = [me EXCEPT !.pc = next]]
    /\ UNCHANGED <<codeVars, transferVars, registryVars, sharedVars, ENVIRONMENT, files,
                   ticks, incremented>>

\* get_file_info: up to storage.get_download_url
InfoStart(p) == LookupStart(p, "get_file_info", "increment")

\* download_file: up to the expiry check
DownloadStart(p) == LookupStart(p, "download_file", "get_file")

\* download_file: storage.get_file(transfer.storage_path) and
\* if not file_content: 404
DownloadGetFile(p) ==
    /\ w[p].pc = "get_file"
    /\ LET file_content == storage_get_file(files, Val(w[p].transfer).storage_path)
       IN  IF IsNone(file_content) \/ Val(file_content) = <<>>
           THEN w' = Respond(p, [status |-> 404])
           ELSE w' = [w EXCEPT ![p].pc = "increment",
                               ![p].file_content = file_content]
    /\ UNCHANGED <<codeVars, transferVars, registryVars, sharedVars, ENVIRONMENT, files,
                   started, ticks, incremented>>

\* the response of get_file_info or download_file once
\* increment_download_count has returned
DeliverResponse(p) ==
    LET t == Val(w[p].transfer)
    IN  IF w[p].kind = "get_file_info"
        THEN [ status        |-> 200,
               code          |-> w[p].code,
               originalName  |-> t.original_name,
               fileType      |-> t.file_type,
               fileSizeBytes |-> t.file_size_bytes,
               downloadUrl   |-> get_download_url(t.storage_path),
               expiresAt     |-> IF IsNone(t.expires_at) THEN None
                                 ELSE Some(isoformat(Val(t.expires_at))),
               downloadCount |-> t.download_count + 1 ]
        ELSE [ status   |-> 200,
               content  |-> Val(w[p].file_content),
               filename |-> t.original_name ]

\* in development, the _load_db of increment_download_count and
\* if code not in db: return False
IncrementLoad(p) ==
    /\ ENVIRONMENT = "development"
    /\ w[p].pc = "increment"
    /\ LET loaded == load_db(db)
       IN  IF w[p].code \notin DOMAIN loaded
           THEN w' = Respond(p, DeliverResponse(p))
           ELSE w' = [w EXCEPT ![p].pc = "increment_save",
                               ![p].loaded = Some(loaded)]
    /\ UNCHANGED <<codeVars, transferVars, registryVars, sharedVars, ENVIRONMENT, files,
                   started, ticks, incremented>>

\* in development, db[code]["downloadCount"] += 1 and the _save_db of
\* increment_download_count, which returns True; the handler returns
IncrementSave(p) ==
    /\ ENVIRONMENT = "development"
    /\ w[p].pc = "increment_save"
    /\ db' = save_db([Val(w[p].loaded) EXCEPT
                         ![w[p].code].downloadCount = @ + 1])
    /\ incremented' = [incremented EXCEPT ![w[p].code] = @ + 1]
    /\ w' = Respond(p, DeliverResponse(p))
    /\ UNCHANGED <<codeVars, transferVars, registryVars, FREE_EXPIRY_HOURS, now,
                   ENVIRONMENT, files, started, ticks>>

\* in production, doc_ref.update(Increment(1)), which raises NotFound for a
\* missing document (an unhandled exception: a 500); the handler returns
IncrementUpdate(p) ==
    /\ ENVIRONMENT = "production"
    /\ w[p].pc = "increment"
    /\ IF w[p].code \in DOMAIN db
       THEN /\ db' = firestore_increment(db, w[p].code)
            /\ incremented' = [incremented EXCEPT ![w[p].code] = @ + 1]
            /\ w' = Respond(p, DeliverResponse(p))
       ELSE /\ w' = Respond(p, [status |-> 500])
            /\ UNCHANGED <<db, incremented>>
    /\ UNCHANGED <<codeVars, transferVars, registryVars, FREE_EXPIRY_HOURS, now,
                   ENVIRONMENT, files, started, ticks>>

\* check_code
CheckCode(p) ==
    /\ w[p].pc = "idle"
    /\ started < MaxRequests
    /\ started' = started + 1
    /\ \E raw \in RequestCodes :
         LET code == normalize_code(raw)
             transfer == registry_get(ENVIRONMENT, db, code, now)
             me == [IdleWorker EXCEPT !.kind = "check_code", !.code = code,
                                      !.transfer = transfer]
         IN  w' = [w EXCEPT ![p] = [me EXCEPT !.resp = Some(
                     IF IsNone(transfer)
                     THEN [valid |-> FALSE, reason |-> "not_found"]
                     ELSE IF is_expired(Val(transfer), now)
                     THEN [valid |-> FALSE, reason |-> "expired"]
                     ELSE [valid         |-> TRUE,
                           fileName      |-> Val(transfer).original_name,
                           fileType      |-> Val(transfer).file_type,
                           fileSizeBytes |-> Val(transfer).file_size_bytes])]]
    /\ UNCHANGED <<codeVars, transferVars, registryVars, sharedVars, ENVIRONMENT, files,
                   ticks, incremented>>

\* time passes
Tick ==
    /\ ticks < MaxTicks
    /\ ticks' = ticks + 1
    /\ \E t \in TimePoints : t > now /\ now' = t
    /\ UNCHANGED <<codeVars, transferVars, registryVars, FREE_EXPIRY_HOURS, db,
                   ENVIRONMENT, files, w, started, incremented>>

Next ==
    \/ \E p \in Procs : UploadStart(p)
    \/ \E p \in Procs : UploadStore(p)
    \/ \E p \in Procs : UploadStoreFails(p)
    \/ \E p \in Procs : UploadCreateLoad(p)
    \/ \E p \in Procs : UploadCreateSave(p)
    \/ \E p \in Procs : UploadCreateSet(p)
    \/ \E p \in Procs : InfoStart(p)
    \/ \E p \in Procs : DownloadStart(p)
    \/ \E p \in Procs : DownloadGetFile(p)
    \/ \E p \in Procs : IncrementLoad(p)
    \/ \E p \in Procs : IncrementSave(p)
    \/ \E p \in Procs : IncrementUpdate(p)
    \/ \E p \in Procs : CheckCode(p)
    \/ Tick

Spec == Init /\ [][Next]_vars

----------------------------------------------------------------------------
(* SpecRegistry: the registry and the storage backend called one call      *)
(* after the other, as the upload and download handlers and the external   *)
(* cleanup process call them, in either environment, while the clock       *)
(* advances.  No two calls overlap.                                        *)

\* the file of every upload of SpecRegistry
SampleContent == <<0>>
\* the storage path upload_file gives the file of a code
SamplePath(code) == make_storage_path(code, SampleName, FALSE)
SamplePaths == {SamplePath(c) : c \in ServiceCodes}

InitRegistry ==
    /\ InitCodeIdle
    /\ InitTransferIdle
    /\ InitRegistryIdle
    /\ FREE_EXPIRY_HOURS = DefaultFreeExpiryHours
    /\ now = 0
    /\ db = EmptyDb
    /\ ENVIRONMENT \in {"development", "production"}
    /\ files = EmptyFiles
    /\ w = [p \in Procs |-> IdleWorker]
    /\ started = 0
    /\ ticks = 0
    /\ incremented = [c \in ServiceCodes |-> 0]

\* the call op(arg) on the registry db ends with result: [store, ret, raised]
RegistryCall(op, arg, result) ==
    /\ rOp' = op
    /\ rArg' = arg
    /\ rRet' = result.ret
    /\ rRaised' = result.raised
    /\ rBefore' = db
    /\ rAt' = now
    /\ rFiles' = files
    /\ db' = result.store

\* transfer_service.create(Transfer(...)), as upload_file builds the transfer
\* (free) or as a premium transfer
ApiCreate ==
    /\ \E code \in ServiceCodes, is_premium \in BOOLEAN :
         LET t == Transfer(code, SampleName, SampleType, Len(SampleContent),
                           make_storage_path(code, SampleName, is_premium),
                           is_premium, None, None, None, 0, now)
         IN  /\ RegistryCall("create", code,
                    Returned(registry_create(ENVIRONMENT, db, t), t))
             /\ live' = live \cup {code}
             /\ delCalled' = delCalled \ {code}
    /\ UNCHANGED <<codeVars, transferVars, serviceVars, FREE_EXPIRY_HOURS, now,
                   delFileCalled>>

\* transfer_service.get(code)
ApiGet ==
    /\ \E code \in ServiceCodes :
         RegistryCall("get", code,
             Returned(db, registry_get(ENVIRONMENT, db, code, now)))
    /\ UNCHANGED <<codeVars, transferVars, serviceVars, FREE_EXPIRY_HOURS, now,
                   live, delCalled, delFileCalled>>

\* transfer_service.exists(code)
ApiExists ==
    /\ \E code \in ServiceCodes :
         RegistryCall("exists", code,
             Returned(db, registry_exists(ENVIRONMENT, db, code)))
    /\ UNCHANGED <<codeVars, transferVars, serviceVars, FREE_EXPIRY_HOURS, now,
                   live, delCalled, delFileCalled>>

\* transfer_service.increment_download_count(code)
ApiIncrement ==
    /\ \E code \in ServiceCodes :
         /\ code \in DOMAIN db => db[code].downloadCount < MaxDownloads
         /\ RegistryCall("increment_download_count", code,
                registry_increment_download_count(ENVIRONMENT, db, code))
    /\ UNCHANGED <<codeVars, transferVars, serviceVars, FREE_EXPIRY_HOURS, now,
                   live, delCalled, delFileCalled>>

\* transfer_service.delete(code)
ApiDelete ==
    /\ \E code \in ServiceCodes :
         /\ RegistryCall("delete", code, registry_delete(ENVIRONMENT, db, code))
         /\ live' = live \ {code}
         /\ delCalled' = delCalled \cup ({code} \cap live)
    /\ UNCHANGED <<codeVars, transferVars, serviceVars, FREE_EXPIRY_HOURS, now,
                   delFileCalled>>

\* transfer_service.get_expired()
ApiGetExpired ==
    /\ RegistryCall("get_expired", <<>>,
           Returned(db, registry_get_expired(ENVIRONMENT, db, now)))
    /\ UNCHANGED <<codeVars, transferVars, serviceVars, FREE_EXPIRY_HOURS, now,
                   live, delCalled, delFileCalled>>

\* transfer_service.get_all_codes()
ApiGetAllCodes ==
    /\ RegistryCall("get_all_codes", <<>>,
           Returned(db, registry_get_all_codes(ENVIRONMENT, db)))
    /\ UNCHANGED <<codeVars, transferVars, serviceVars, FREE_EXPIRY_HOURS, now,
                   live, delCalled, delFileCalled>>

\* storage.upload_file(content, code, filename, is_premium=False)
ApiUploadFile ==
    /\ \E code \in ServiceCodes :
         /\ files' = storage_upload_file(files, SampleContent, code,
                                         SampleName, FALSE)
         /\ RegistryCall("upload_file", SamplePath(code),
                         Returned(db, SamplePath(code)))
         /\ delFileCalled' = delFileCalled \ {SamplePath(code)}
    /\ UNCHANGED <<codeVars, transferVars, FREE_EXPIRY_HOURS, now, ENVIRONMENT,
                   w, started, ticks, incremented, live, delCalled>>

\* storage.get_file(storage_path)
ApiGetFile ==
    /\ \E storage_path \in SamplePaths :
         RegistryCall("get_file", storage_path,
             Returned(db, storage_get_file(files, storage_path)))
    /\ UNCHANGED <<codeVars, transferVars, serviceVars, FREE_EXPIRY_HOURS, now,
                   live, delCalled, delFileCalled>>

\* storage.delete_file(storage_path)
ApiDeleteFile ==
    /\ \E storage_path \in SamplePaths :
         LET r == storage_delete_file(ENVIRONMENT, files, storage_path)
         IN  /\ files' = r.store
             /\ RegistryCall("delete_file", storage_path, Returned(db, r.ret))
             /\ delFileCalled' =
                    delFileCalled \cup ({storage_path} \cap DOMAIN files)
    /\ UNCHANGED <<codeVars, transferVars, FREE_EXPIRY_HOURS, now, ENVIRONMENT,
                   w, started, ticks, incremented, live, delCalled>>

\* faulty variant: the record of a transfer refused as expired is deleted
download_file_purging(env, store, objects, code, utcnow) ==
    LET transfer == registry_get(env, store, code, utcnow)
    IN  IF IsNone(transfer) THEN Returned(store, 404)
        ELSE IF is_expired(Val(transfer), utcnow)
        THEN Returned(Remove(store, code), 410)
        ELSE LET file_content ==
                     storage_get_file(objects, Val(transfer).storage_path)
             IN  IF IsNone(file_content) \/ Val(file_content) = <<>>
                 THEN Returned(store, 404)
                 ELSE LET r == registry_increment_download_count(env, store, code)
                      IN  IF r.raised THEN Returned(r.store, 500)
                          ELSE Returned(r.store, 200)

\* download_file(code), from the request to the response: [store, ret,
\* raised] with ret the status of the response
download_file(env, store, objects, code, utcnow) ==
    LET transfer == registry_get(env, store, code, utcnow)
    IN  IF IsNone(transfer) THEN Returned(store, 404)
        ELSE IF is_expired(Val(transfer), utcnow) THEN Returned(store, 410)
        ELSE LET file_content ==
                     storage_get_file(objects, Val(transfer).storage_path)
             IN  IF IsNone(file_content) \/ Val(file_content) = <<>>
                 THEN Returned(store, 404)
                 ELSE LET r == registry_increment_download_count(env, store, code)
                      IN  IF r.raised THEN Returned(r.store, 500)
                          ELSE Returned(r.store, 200)

\* a download request: GET /download/{code}
ApiDownload ==
    /\ \E raw \in RequestCodes :
         LET code == normalize_code(raw)
         IN  /\ code \in DOMAIN db => db[code].downloadCount < MaxDownloads
             /\ RegistryCall("download_file", code,
                    download_file(ENVIRONMENT, db, files, code, now))
    /\ UNCHANGED <<codeVars, transferVars, serviceVars, FREE_EXPIRY_HOURS, now,
                   live, delCalled, delFileCalled>>

\* time passes
RegistryTick ==
    /\ ticks < MaxTicks
    /\ ticks' = ticks + 1
    /\ \E t \in TimePoints : t > now /\ now' = t
    /\ UNCHANGED <<codeVars, transferVars, registryVars, FREE_EXPIRY_HOURS, db,
                   ENVIRONMENT, files, w, started, incremented>>

NextRegistry ==
    \/ ApiCreate
    \/ ApiGet
    \/ ApiExists
    \/ ApiIncrement
    \/ ApiDelete
    \/ ApiGetExpired
    \/ ApiGetAllCodes
    \/ ApiUploadFile
    \/ ApiGetFile
    \/ ApiDeleteFile
    \/ ApiDownload
    \/ RegistryTick

SpecRegistry == InitRegistry /\ [][NextRegistry]_vars

-----------------------------------------------------------------------------
(* SpecLookup: the service answering one request at a time, with codes     *)
(* long enough for format_code_for_display to insert its separator.  A     *)
(* request is one step, from the code in the URL to the response.          *)

\* the upload handler's generate_code() and its uniqueness loop end with
\* one of these codes: of the codes of length LookupCodeLength, those in
\* which no symbol follows itself.  The loop can end with any of them, a
\* taken one included (after MaxUploadAttempts colliding draws).
LookupCodes ==
    {c \in generate_code(LookupCodeLength) :
        \A i \in 1..(Len(c) - 1) : c[i] # c[i + 1]}

\* the ways a holder of code c writes it in the URL
Spellings(c) == {c, str_lower(c), format_code_for_display(c)}

LookupRequestCodes == UNION {Spellings(c) : c \in LookupCodes}

\* faulty variant: the check counts as a download
check_code_counting(env, store, code, utcnow) ==
    LET transfer == registry_get(env, store, code, utcnow)
    IN  IF IsNone(transfer)
        THEN Returned(store, [valid |-> FALSE, reason |-> "not_found"])
        ELSE Returned(registry_increment_download_count(env, store, code).store,
                      [valid |-> FALSE, reason |-> "expired"])

\* get_file_info(code) after the normalisation, from the lookup to the
\* response: [store, ret, raised]
get_file_info(env, store, code, utcnow) ==
    LET transfer == registry_get(env, store, code, utcnow)
    IN  IF IsNone(transfer) THEN Returned(store, [status |-> 404])
        ELSE IF is_expired(Val(transfer), utcnow)
        THEN Returned(store, [status |-> 410])
        ELSE LET t == Val(transfer)
                 r == registry_increment_download_count(env, store, code)
             IN  IF r.raised THEN Returned(r.store, [status |-> 500])
                 ELSE Returned(r.store,
                        [ status        |-> 200,
                          code          |-> code,
                          originalName  |-> t.original_name,
                          fileType      |-> t.file_type,
                          fileSizeBytes |-> t.file_size_bytes,
                          downloadUrl   |-> get_download_url(t.storage_path),
                          expiresAt     |-> IF IsNone(t.expires_at) THEN None
                                            ELSE Some(isoformat(Val(t.expires_at))),
                          downloadCount |-> t.download_count + 1 ])

\* check_code(code) after the normalisation: [store, ret, raised]
check_code(env, store, code, utcnow) ==
    LET transfer == registry_get(env, store, code, utcnow)
    IN  IF IsNone(transfer)
        THEN Returned(store, [valid |-> FALSE, reason |-> "not_found"])
        ELSE IF is_expired(Val(transfer), utcnow)
        THEN Returned(store, [valid |-> FALSE, reason |-> "expired"])
        ELSE Returned(store,
               [ valid         |-> TRUE,
                 fileName      |-> Val(transfer).original_name,
                 fileType      |-> Val(transfer).file_type,
                 fileSizeBytes |-> Val(transfer).file_size_bytes ])

InitLookup ==
    /\ InitCodeIdle
    /\ InitTransferIdle
    /\ InitRegistryIdle
    /\ FREE_EXPIRY_HOURS = DefaultFreeExpiryHours
    /\ now = 0
    /\ db = EmptyDb
    /\ ENVIRONMENT \in {"development", "production"}
    /\ files = EmptyFiles
    /\ w = [p \in Procs |-> IdleWorker]
    /\ started = 0
    /\ ticks = 0
    /\ incremented = [c \in ServiceCodes |-> 0]

\* POST /upload of a valid file: the bytes are stored, the record is created
\* and the response carries the code
ReqUpload ==
    /\ \E code \in LookupCodes :
         LET storage_path == make_storage_path(code, SampleName, FALSE)
             transfer == Transfer(code, SampleName, SampleType,
                                  Len(SampleContent), storage_path, FALSE,
                                  None, None, None, 0, now)
         IN  /\ files' = storage_upload_file(files, SampleContent, code,
                                             SampleName, FALSE)
             /\ RegistryCall("upload_file", code,
                    Returned(registry_create(ENVIRONMENT, db, transfer),
                             [ status        |-> 200,
                               code          |-> code,
                               codeFormatted |-> format_code_for_display(code) ]))
    /\ UNCHANGED <<codeVars, transferVars, FREE_EXPIRY_HOURS, now, ENVIRONMENT,
                   w, started, ticks, incremented, live, delCalled,
                   delFileCalled>>

\* the guard that keeps downloadCount within MaxDownloads
CountBelowBound(code) ==
    code \in DOMAIN db => db[code].downloadCount < MaxDownloads

\* GET /file/{code}
ReqInfo ==
    /\ \E raw \in LookupRequestCodes :
         LET code == normalize_code(raw)
         IN  /\ CountBelowBound(code)
             /\ RegistryCall("get_file_info", raw,
                    get_file_info(ENVIRONMENT, db, code, now))
    /\ UNCHANGED <<codeVars, transferVars, serviceVars, FREE_EXPIRY_HOURS, now,
                   live, delCalled, delFileCalled>>

\* GET /download/{code}
ReqDownload ==
    /\ \E raw \in LookupRequestCodes :
         LET code == normalize_code(raw)
         IN  /\ CountBelowBound(code)
             /\ RegistryCall("download_file", raw,
                    download_file(ENVIRONMENT, db, files, code, now))
    /\ UNCHANGED <<codeVars, transferVars, serviceVars, FREE_EXPIRY_HOURS, now,
                   live, delCalled, delFileCalled>>

\* GET /check/{code}
ReqCheck ==
    /\ \E raw \in LookupRequestCodes :
         RegistryCall("check_code", raw,
             check_code(ENVIRONMENT, db, normalize_code(raw), now))
    /\ UNCHANGED <<codeVars, transferVars, serviceVars, FREE_EXPIRY_HOURS, now,
                   live, delCalled, delFileCalled>>

\* storage.delete_file(storage_path) of a stored object: the bytes of a
\* transfer go missing while its record stays
LookupDeleteFile ==
    /\ \E storage_path \in DOMAIN files :
         LET r == storage_delete_file(ENVIRONMENT, files, storage_path)
         IN  /\ files' = r.store
             /\ RegistryCall("delete_file", storage_path, Returned(db, r.ret))
    /\ UNCHANGED <<codeVars, transferVars, FREE_EXPIRY_HOURS, now, ENVIRONMENT,
                   w, started, ticks, incremented, live, delCalled,
                   delFileCalled>>

\* time passes
LookupTick ==
    /\ ticks < MaxTicks
    /\ ticks' = ticks + 1
    /\ \E t \in TimePoints : t > now /\ now' = t
    /\ UNCHANGED <<codeVars, transferVars, registryVars, FREE_EXPIRY_HOURS, db,
                   ENVIRONMENT, files, w, started, incremented>>

NextLookup ==
    \/ ReqUpload
    \/ ReqInfo
    \/ ReqDownload
    \/ ReqCheck
    \/ LookupDeleteFile
    \/ LookupTick

SpecLookup == InitLookup /\ [][NextLookup]_vars

----------------------------------------------------------------------------
(* Claims on code_generator.py, checked under SpecCode *)

\* C5 (as claimed): generate_unique_code(existing_codes, length) never returns
\* a member of existing_codes when existing_codes has fewer than
\* alphabet^length elements, codes of other lengths included.
Cex_C5 ==
    ( /\ cOp = "generate_unique_code"
      /\ cPc = "done"
      /\ ~IsNone(cExisting)
      /\ Cardinality(Val(cExisting)) < Len(alphabet) ^ cLength )
    => Val(cRet) \notin Val(cExisting)

\* the uppercase letters and digits with 0, O, I, 1 and L excluded
UnambiguousChars ==
    (Range(UpperLetters) \cup Range(DigitChars)) \ {"0", "O", "I", "1", "L"}

GeneratedCodeOk ==
    (cOp = "generate_code" /\ cPc = "done")
    => /\ Len(Val(cRet)) = cLength
       /\ \A i \in 1..Len(Val(cRet)) : Val(cRet)[i] \in Range(alphabet)

\* C6 (as claimed): generate_code(length) returns exactly length characters,
\* each from the alphabet, and the alphabet has exactly 32 symbols: the
\* uppercase letters and digits without 0, O, I, 1, L.
Cex_C6 ==
    /\ GeneratedCodeOk
    /\ Range(alphabet) = UnambiguousChars
    /\ Cardinality(Range(alphabet)) = 32

\* C6 (amended): generate_code(length) returns exactly length characters,
\* each from the alphabet, and the alphabet has exactly 31 symbols, without
\* repetition: the uppercase letters and digits without 0, O, I, 1, L.
Thm_C6 ==
    /\ GeneratedCodeOk
    /\ Range(alphabet) = UnambiguousChars
    /\ Cardinality(Range(alphabet)) = 31
    /\ Len(alphabet) = 31

\* a call of generate_code with the largest length has returned a code that
\* uses two symbols
Wit_C6 ==
    /\ cOp = "generate_code"
    /\ cPc = "done"
    /\ cLength = MaxLength
    /\ Cardinality(Range(Val(cRet))) > 1

\* the reversal of the display format: strip the non-alphanumeric
\* characters, then uppercase
StripUpper(s) == str_upper(SelectSeq(s, char_isalnum))

\* C7: for a code longer than 4 over the generator's alphabet, stripping the
\* non-alphanumerics of format_code_for_display(code) and uppercasing gives
\* back code; a code of length <= 4 is returned unchanged.
Thm_C7 ==
    (cOp = "format_code_for_display" /\ cPc = "done")
    => IF Len(cArg) > 4
       THEN StripUpper(Val(cRet)) = cArg
       ELSE Val(cRet) = cArg

\* a code longer than 4, of two symbols, has been formatted and the result
\* differs from it
Wit_C7 ==
    /\ cOp = "format_code_for_display"
    /\ cPc = "done"
    /\ Len(cArg) > 4
    /\ Cardinality(Range(cArg)) > 1
    /\ Val(cRet) # cArg

----------------------------------------------------------------------------
(* Claims on class Transfer and on create / get, checked under SpecTransfer *)

\* C8 (as claimed): a Transfer with is_premium = false and created_at = T has
\* expires_at = T + FREE_EXPIRY_HOURS, one with is_premium = true has
\* expires_at = None, whatever the other constructor arguments are.
Cex_C8 ==
    ~IsNone(tObj) =>
        LET t == Val(tObj)
        IN  IF t.is_premium
            THEN IsNone(t.expires_at)
            ELSE t.expires_at
                    = Some(t.created_at + timedelta_hours(FREE_EXPIRY_HOURS))

\* C8 (amended): a Transfer constructed without an explicit expires_at has
\* expires_at = created_at + FREE_EXPIRY_HOURS when is_premium is false and
\* expires_at = None when it is true; an explicitly passed expires_at (what
\* from_dict passes for a stored expiry) is kept as given.
Thm_C8 ==
    ~IsNone(tObj) =>
        LET t == Val(tObj)
            a == Val(tArgs)
        IN  /\ t.is_premium = a.is_premium
            /\ ~IsNone(a.created_at) => t.created_at = Val(a.created_at)
            /\ IF ~IsNone(a.expires_at)
               THEN t.expires_at = a.expires_at
               ELSE IF a.is_premium
                    THEN IsNone(t.expires_at)
                    ELSE t.expires_at
                            = Some(t.created_at
                                     + timedelta_hours(FREE_EXPIRY_HOURS))

\* a free Transfer was constructed with an explicit expires_at that is not
\* created_at + FREE_EXPIRY_HOURS
Wit_C8 ==
    /\ tPc = "built"
    /\ ~Val(tArgs).is_premium
    /\ ~IsNone(Val(tArgs).created_at)
    /\ ~IsNone(Val(tArgs).expires_at)
    /\ Val(tArgs).expires_at
          # Some(Val(tObj).created_at + timedelta_hours(FREE_EXPIRY_HOURS))

\* C9: is_expired() is true exactly when expires_at is not None and
\* now > expires_at: false at now = expires_at, true one second later, false
\* at every time when expires_at is None.
Thm_C9 ==
    ~IsNone(tExpired) =>
        LET t == Val(tObj)
            r == Val(tExpired)
        IN  /\ r.result = (~IsNone(t.expires_at) /\ r.at > Val(t.expires_at))
            /\ (~IsNone(t.expires_at) /\ r.at = Val(t.expires_at))
                  => r.result = FALSE
            /\ (~IsNone(t.expires_at) /\ r.at = Val(t.expires_at) + 1)
                  => r.result = TRUE
            /\ IsNone(t.expires_at) => r.result = FALSE

\* is_expired() was called at the very instant of expiry
Wit_C9 ==
    /\ ~IsNone(tExpired)
    /\ ~IsNone(Val(tObj).expires_at)
    /\ Val(tExpired).at = Val(Val(tObj).expires_at)
    /\ Val(tExpired).result = FALSE

\* C10: create(t) followed by get(t.code) returns a record equal to t in
\* every field.
Thm_C10 ==
    tPc = "fetched" =>
        /\ ~IsNone(Val(tGot))
        /\ \A f \in DOMAIN Val(tObj) : Val(Val(tGot))[f] = Val(tObj)[f]
        /\ DOMAIN Val(Val(tGot)) = DOMAIN Val(tObj)

\* a Transfer with a user, a count and an expiry was stored and read back
Wit_C10 ==
    /\ tPc = "fetched"
    /\ ~IsNone(Val(tGot))
    /\ ~IsNone(Val(tObj).user_id)
    /\ ~IsNone(Val(tObj).expires_at)
    /\ Val(tObj).download_count > 0
    /\ Val(tObj).created_at # now

----------------------------------------------------------------------------
(* Claims on the upload and download flows, checked under Spec *)

\* the step with which worker p's upload writes its record into the registry
CreateCommits(p) ==
    /\ w[p].kind = "upload_file"
    /\ w[p].pc \in {"create", "create_save"}
    /\ w'[p].pc = "idle"

\* worker p's last request was an upload that succeeded
UploadOk(p) ==
    /\ w[p].kind = "upload_file"
    /\ w[p].pc = "idle"
    /\ ~IsNone(w[p].resp)
    /\ Val(w[p].resp).status = 200

\* C1 (as claimed): every upload creates its record under a code that is not
\* a key of the registry at the moment of create.
Cex_C1 ==
    [][\A p \in Procs : CreateCommits(p) => w[p].code \notin DOMAIN db]_vars

\* registry get of p's code returns the transfer p uploaded (its download
\* count apart)
ResolvesToOwn(p) ==
    LET got == registry_get(ENVIRONMENT, db, Val(w[p].resp).code, now)
    IN  /\ ~IsNone(got)
        /\ [Val(got) EXCEPT !.download_count = 0] = Val(w[p].transfer)

\* C2 (as claimed): two uploads that ran concurrently and were handed the
\* same first candidate code finish with distinct codes, each resolving to
\* its own transfer.
Cex_C2 ==
    \A p, q \in Procs :
        ( /\ p # q
          /\ UploadOk(p) /\ UploadOk(q)
          /\ q \in w[p].overlaps /\ p \in w[q].overlaps
          /\ w[p].first = w[q].first )
        => /\ Val(w[p].resp).code # Val(w[q].resp).code
           /\ ResolvesToOwn(p)
           /\ ResolvesToOwn(q)

\* C3 (as claimed): the increment_download_count calls on a code that have
\* returned True, however they interleaved, have each raised the stored
\* downloadCount by one.
Cex_C3 ==
    \A c \in DOMAIN db : db[c].downloadCount = incremented[c]

\* C4: the record of an upload is created after storage.upload_file has
\* returned, when the bytes exist under the record's storagePath; an upload
\* whose storage.upload_file fails ends without touching the registry.
Thm_C4 ==
    [][\A p \in Procs :
         /\ CreateCommits(p)
              => /\ ~IsNone(w[p].storage_path)
                 /\ Val(w[p].storage_path) \in DOMAIN files
                 /\ w[p].code \in DOMAIN db'
                 /\ db'[w[p].code].storagePath = Val(w[p].storage_path)
         /\ (w[p].pc = "store" /\ w'[p].pc = "idle")
              => /\ db' = db
                 /\ Val(w'[p].resp).status = 500
         /\ (w'[p].pc \in {"create", "create_save"}
               /\ w[p].pc \notin {"create", "create_save"})
              => /\ w[p].pc = "store"
                 /\ Val(w'[p].storage_path) \in DOMAIN files'
    ]_vars

\* one upload has created its record and another has failed in storage
Wit_C4 ==
    \E p, q \in Procs :
        /\ UploadOk(p)
        /\ Val(w[p].resp).code \in DOMAIN db
        /\ db[Val(w[p].resp).code].storagePath \in DOMAIN files
        /\ w[q].kind = "upload_file"
        /\ w[q].pc = "idle"
        /\ w[q].resp = Some([status |-> 500])


----------------------------------------------------------------------------
(* Claims on the registry's calls (SpecRegistry) *)

\* C11: increment_download_count(code) on a code that has no record returns
\* False, raises nothing and leaves the registry unchanged; on a code that has
\* a record it returns True and raises the stored downloadCount by exactly 1;
\* in both environments.
Cex_C11 ==
    rOp = "increment_download_count" =>
        IF rArg \notin DOMAIN rBefore
        THEN ~rRaised /\ rRet = Some(FALSE) /\ db = rBefore
        ELSE /\ ~rRaised
             /\ rRet = Some(TRUE)
             /\ rArg \in DOMAIN db
             /\ db[rArg].downloadCount = rBefore[rArg].downloadCount + 1

\* C12: on a code that has no record, get returns None, exists returns False
\* and delete returns False, none of them raises and the registry is
\* unchanged; delete on an existing code returns True (so a second delete of
\* the code returns False); in both environments.
Cex_C12 ==
    /\ (rOp = "get" /\ rArg \notin DOMAIN rBefore)
          => ~rRaised /\ rRet = Some(None) /\ db = rBefore
    /\ (rOp = "exists" /\ rArg \notin DOMAIN rBefore)
          => ~rRaised /\ rRet = Some(FALSE) /\ db = rBefore
    /\ rOp = "delete"
          => /\ ~rRaised
             /\ rRet = Some(rArg \in DOMAIN rBefore)
             /\ rArg \notin DOMAIN rBefore => db = rBefore

\* the stored records whose expiresAt is non-null and strictly before utcnow
StrictlyExpired(store, utcnow) ==
    {c \in DOMAIN store :
        /\ ~IsNone(store[c].expiresAt)
        /\ fromisoformat(Val(store[c].expiresAt)) < utcnow}

\* C13: get_expired() returns exactly the stored records whose expiresAt is
\* non-null and strictly before now, which are exactly the records for which
\* is_expired() is true; in both environments.
Cex_C13 ==
    rOp = "get_expired" =>
        /\ ~rRaised
        /\ {t.code : t \in Val(rRet)} = StrictlyExpired(rBefore, rAt)
        /\ \A c \in DOMAIN rBefore :
              is_expired(from_dict(rBefore[c], rAt), rAt)
                  <=> c \in StrictlyExpired(rBefore, rAt)
        /\ \A t \in Val(rRet) : t = from_dict(rBefore[t.code], rAt)

\* C14: after any sequence of create, increment_download_count, delete and
\* download calls, get_all_codes() is the set of the codes created and not
\* deleted since; a transfer that has expired, and one whose download was
\* refused as expired, stays in it.
Thm_C14 ==
    /\ registry_get_all_codes(ENVIRONMENT, db) = live
    /\ rOp = "get_all_codes" => ~rRaised /\ rRet = Some(live)
    /\ (rOp = "download_file" /\ rRet = Some(410))
          => rArg \in registry_get_all_codes(ENVIRONMENT, db)

\* get_all_codes() has returned the code of an expired transfer
Wit_C14 ==
    /\ rOp = "get_all_codes"
    /\ \E c \in Val(rRet) : is_expired(from_dict(rBefore[c], rAt), rAt)

----------------------------------------------------------------------------
(* Claims on the stored record while the service runs (Spec) *)

\* the step is the end of an increment_download_count call on code c
IncrementStep(c) ==
    \E p \in Procs :
        /\ w[p].pc \in {"increment", "increment_save"}
        /\ w[p].code = c
        /\ w'[p].pc = "idle"

\* C15: for every code, while its record is not deleted, the stored
\* downloadCount never decreases from one state to the next, and every step
\* that changes it is an increment_download_count step that raises it by 1;
\* no create or upload step changes the downloadCount of an existing record.
Cex_C15 ==
    [][\A c \in DOMAIN db \cap DOMAIN db' :
          db'[c].downloadCount # db[c].downloadCount
              => /\ db'[c].downloadCount = db[c].downloadCount + 1
                 /\ IncrementStep(c)]_vars

\* C16: for every code, from the creation of its record until its deletion,
\* the stored storagePath, isPremium and createdAt have the same value in
\* every state, under any sequence of uploads, downloads and increments.
Cex_C16 ==
    [][\A c \in DOMAIN db \cap DOMAIN db' :
          /\ db'[c].storagePath = db[c].storagePath
          /\ db'[c].isPremium = db[c].isPremium
          /\ db'[c].createdAt = db[c].createdAt]_vars

----------------------------------------------------------------------------
(* Claims on the Transfer object (SpecTransfer), continued *)

\* C17: every Transfer object, however constructed (any is_premium, any
\* explicit created_at / expires_at, any configured integer
\* FREE_EXPIRY_HOURS), and every record stored in the registry, has expires_at
\* either null or >= created_at.
Cex_C17 ==
    /\ ~IsNone(tObj) =>
          \/ IsNone(Val(tObj).expires_at)
          \/ Val(Val(tObj).expires_at) >= Val(tObj).created_at
    /\ \A c \in DOMAIN db :
          \/ IsNone(db[c].expiresAt)
          \/ fromisoformat(Val(db[c].expiresAt)) >= fromisoformat(db[c].createdAt)

----------------------------------------------------------------------------
(* Claims on the download-side handlers (Spec) *)

\* worker p takes a get_file_info or download_file request in this step and
\* the handler runs to the end of its expiry check
LookupStep(p) ==
    /\ w[p].pc = "idle"
    /\ started' = started + 1
    /\ w'[p] # w[p]
    /\ w'[p].kind \in {"get_file_info", "download_file"}

\* the record stored under code exists and is_expired() is true of it
StoredExpired(code) ==
    /\ code \in DOMAIN db
    /\ ~IsNone(db[code].expiresAt)
    /\ now > fromisoformat(Val(db[code].expiresAt))

\* C18: a request for file info or for download of a code whose record exists
\* but is expired is answered 410, which is not the 404 of a code without a
\* record, and leaves the registry as it was: the record is neither deleted
\* nor incremented.
Thm_C18 ==
    [][\A p \in Procs :
          LookupStep(p) =>
              /\ StoredExpired(w'[p].code)
                    <=> w'[p].resp = Some([status |-> 410])
              /\ w'[p].code \notin DOMAIN db
                    <=> w'[p].resp = Some([status |-> 404])
              /\ (StoredExpired(w'[p].code) \/ w'[p].code \notin DOMAIN db)
                    => /\ db' = db
                       /\ w'[p].pc = "idle"]_vars

\* a get_file_info request was answered 410 and the record is still stored,
\* not incremented
Wit_C18 ==
    \E p \in Procs :
        /\ w[p].kind = "get_file_info"
        /\ w[p].resp = Some([status |-> 410])
        /\ w[p].code \in DOMAIN db
        /\ db[w[p].code].downloadCount = 0

\* worker p's get_file_info request ends in this step with a 200
InfoSucceeds(p) ==
    /\ w[p].kind = "get_file_info"
    /\ w[p].pc \in {"increment", "increment_save"}
    /\ w'[p].pc = "idle"
    /\ Val(w'[p].resp).status = 200

\* C19: each successful get_file_info(code) on an unexpired transfer raises
\* the stored downloadCount by exactly 1 and returns the originalName given at
\* upload together with a downloadCount equal to the value stored once the
\* request has finished.
Cex_C19 ==
    [][\A p \in Procs :
          InfoSucceeds(p) =>
              LET code == w[p].code
                  resp == Val(w'[p].resp)
              IN  /\ code \in DOMAIN db
                  /\ code \in DOMAIN db'
                  /\ db'[code].downloadCount = db[code].downloadCount + 1
                  /\ resp.originalName = db'[code].originalName
                  /\ resp.downloadCount = db'[code].downloadCount]_vars

----------------------------------------------------------------------------
(* Claims on deletion (SpecRegistry) *)

\* the codes that were uploaded (bytes stored, record created) and whose
\* bytes and record have both been passed to delete_file() and delete()
\* since, with no create of the code and no upload to its path after that
DeletedUploads ==
    {c \in ServiceCodes : c \in delCalled /\ SamplePath(c) \in delFileCalled}

----------------------------------------------------------------------------
(* Claims on the storage backend's calls (SpecRegistry) *)

\* C21: delete_file(storagePath) returns True exactly when an object was
\* stored under storagePath and this call removed it, and returns False
\* without raising when nothing is stored there (so a second delete_file of
\* the path returns False); in both environments.
Cex_C21 ==
    rOp = "delete_file" =>
        /\ ~rRaised
        /\ rRet = Some(rArg \in DOMAIN rFiles)
        /\ rArg \notin DOMAIN files
        /\ \A q \in DOMAIN rFiles \ {rArg} :
              q \in DOMAIN files /\ files[q] = rFiles[q]


-----------------------------------------------------------------------------
(* Claims on generate_unique_code's retry budget (SpecCodeFair) *)

\* at most 100 candidates have been refused, and a returned code has length
\* `length` or `length + 2`
UniqueBudgetOk ==
    cOp = "generate_unique_code" =>
        /\ cAttempt <= 100
        /\ cPc = "done" => Len(Val(cRet)) \in {cLength, cLength + 2}

\* the step on which a call with a set of existing codes returns: within the
\* budget it returns a candidate of length `length` that is not in the set;
\* it returns a code of length `length + 2` only after 100 refused candidates
UniqueReturnStep ==
    (cOp = "generate_unique_code" /\ cPc = "loop" /\ cPc' = "done") =>
        \/ /\ cAttempt < 100
           /\ cAttempt' = cAttempt
           /\ Len(Val(cRet')) = cLength
           /\ Val(cRet') \notin Val(cExisting)
        \/ /\ cAttempt = 100
           /\ Len(Val(cRet')) = cLength + 2

\* a refused candidate uses up one draw of the budget
UniqueRetryStep ==
    (cOp = "generate_unique_code" /\ cPc = "loop" /\ cPc' = "loop") =>
        /\ cAttempt < 100
        /\ cAttempt' = cAttempt + 1

\* C22: generate_unique_code(existing_codes, length) always terminates with a
\* code: it draws at most 100 candidates of length `length`, returns the first
\* one not in existing_codes, only after 100 candidates that are all in
\* existing_codes returns a code of length `length + 2`, and so returns a code
\* of length `length` or `length + 2`.
Thm_C22 ==
    /\ []UniqueBudgetOk
    /\ [][UniqueReturnStep /\ UniqueRetryStep]_vars
    /\ (cOp = "generate_unique_code") ~> (cPc = "done" /\ ~IsNone(cRet))

\* a call whose 100 candidates were all taken returned a longer code
Wit_C22 ==
    /\ cOp = "generate_unique_code"
    /\ cPc = "done"
    /\ cAttempt = 100
    /\ ~IsNone(cExisting)
    /\ Len(Val(cRet)) = cLength + 2


-----------------------------------------------------------------------------
(* Claims on the code in the URL (SpecLookup) *)

\* the codes of the records the registry held when the last request came,
\* each the code an upload returned
UploadedCodes == DOMAIN rBefore

\* the last request was answered as a request with code c is answered
AnsweredAsFor(c) ==
    CASE rOp = "get_file_info" ->
             LET r == get_file_info(ENVIRONMENT, rBefore, c, rAt)
             IN  rRet = r.ret /\ db = r.store /\ rRet # Some([status |-> 404])
      [] rOp = "download_file" ->
             LET r == download_file(ENVIRONMENT, rBefore, rFiles, c, rAt)
             IN  rRet = r.ret /\ db = r.store
      [] rOp = "check_code" ->
             LET r == check_code(ENVIRONMENT, rBefore, c, rAt)
             IN  /\ rRet = r.ret
                 /\ rRet # Some([valid |-> FALSE, reason |-> "not_found"])
      [] OTHER -> TRUE

\* C23: get_file_info, download_file and check_code uppercase the received
\* code and remove its hyphens before the registry lookup: a request with
\* format_code_for_display(c) or with c in lowercase, c a code an upload
\* returned, resolves to the record a request with c resolves to.
Thm_C23 ==
    rOp \in {"get_file_info", "download_file", "check_code"} =>
        \A c \in UploadedCodes : rArg \in Spellings(c) => AnsweredAsFor(c)

\* a file was delivered to a request that spelled the code with the separator
Wit_C23 ==
    /\ rOp = "download_file"
    /\ rRet = Some(200)
    /\ \E c \in UploadedCodes :
         rArg = format_code_for_display(c) /\ rArg # c


-----------------------------------------------------------------------------
(* Claims on the bytes a download returns (Spec) *)

\* worker p, in download_file with a record that is not expired, takes the
\* step of storage.get_file: when an object is stored under the record's
\* storagePath the request goes on with exactly its bytes, whatever their
\* length, and is not answered NotFound
DownloadFindsBytes(p) ==
    (w[p].pc = "get_file" /\ w'[p] # w[p]) =>
        LET storage_path == Val(w[p].transfer).storage_path
        IN  storage_path \in DOMAIN files =>
                /\ w'[p].pc = "increment"
                /\ w'[p].file_content = Some(files[storage_path])

\* worker p answers a download NotFound at the lookup only when the registry
\* has no record of the code
NotFoundWithoutRecord(p) ==
    ( /\ w[p].pc = "idle"
      /\ w'[p].kind = "download_file"
      /\ w'[p].resp = Some([status |-> 404]) )
    => w'[p].code \notin DOMAIN db

\* C24 (as claimed): for every transfer uploaded successfully, not expired and
\* with record and bytes in place, download_file(code) succeeds and returns
\* exactly the uploaded bytes, the empty content included; NotFound is given
\* only when the record or the stored object is absent.
Cex_C24 ==
    [][\A p \in Procs : DownloadFindsBytes(p) /\ NotFoundWithoutRecord(p)]_vars


-----------------------------------------------------------------------------
(* Claims on the local JSON registry under concurrent writers (Spec) *)

\* worker p takes the _save_db step of a create or an
\* increment_download_count on the local registry
LocalSaveStep(p) ==
    /\ ENVIRONMENT = "development"
    /\ w[p].pc \in {"create_save", "increment_save"}
    /\ w'[p] # w[p]

\* the records of the codes other than code are in the document after the
\* step as they were before it
OthersKept(code) ==
    \A other \in DOMAIN load_db(db) \ {code} :
        /\ other \in DOMAIN load_db(db')
        /\ load_db(db')[other] = load_db(db)[other]

\* C25 (as claimed): in the local JSON registry a write to one code never
\* removes or alters the record of another code, in every interleaving of
\* the _load_db and _save_db steps of calls on distinct codes.
Cex_C25 ==
    [][\A p \in Procs : LocalSaveStep(p) => OthersKept(w[p].code)]_vars


-----------------------------------------------------------------------------
(* Claims on the requests that deliver no file (SpecLookup) *)

\* the last request was a check_code, or a get_file_info or download_file
\* answered NotFound or expired
DeliveredNothing ==
    \/ rOp = "check_code"
    \/ /\ rOp = "get_file_info"
       /\ rRet \in {Some([status |-> 404]), Some([status |-> 410])}
    \/ /\ rOp = "download_file"
       /\ rRet \in {Some(404), Some(410)}

\* C26: a download-side request that delivers no file leaves the persistent
\* state unchanged: check_code for any code, and get_file_info or
\* download_file ending in NotFound (download_file with a record whose bytes
\* are missing included), add, remove or increment no record and leave the
\* stored bytes as they were.
Thm_C26 ==
    DeliveredNothing => (db = rBefore /\ files = rFiles)

\* download_file was answered NotFound for a record whose bytes are missing
Wit_C26 ==
    /\ rOp = "download_file"
    /\ rRet = Some(404)
    /\ normalize_code(rArg) \in DOMAIN rBefore
    /\ rBefore[normalize_code(rArg)].storagePath \notin DOMAIN rFiles

============================================================================
